---------------------------- MODULE Spec2Model ----------------------------
(***************************************************************************)
(* Confirmation gate of social-cli-mcp.                                    *)
(*                                                                         *)
(*   GateSpec : src/src/security-gate.ts, one CLI process running one     *)
(*              gated executor (requestConfirmation + the executor body).  *)
(*              Time unit: 1000 ms; timers fire when due.                  *)
(*   RunsSpec : GateSpec with the command run again, up to MaxRuns times,  *)
(*              the results of earlier runs kept for comparison.           *)
(*   BotSpec  : src/src/telegram-bot.ts, the bot's pending-action queue,   *)
(*              its confirm/cancel handlers and the expiry sweep.          *)
(*              Time unit: 30000 ms.                                       *)
(*   TweetSpec : postTweetWithConfirmation with the gate configured, any   *)
(*              text, timeouts of up to two poll intervals.                *)
(*   AnySenderSpec : the bot's handlers for updates from any sender, with  *)
(*              TELEGRAM_USER_ID set or not.                               *)
(*   EntrySpec : the bot's handlers next to the CLI and the MCP tools.     *)
(*   SweepSpec : the bot's queue, the sweep and the clock only.            *)
(*   SharedTokenSpec : the gate and the bot polling the same bot token.    *)
(*   PromptSpec : the confirmation prompt's text (security-gate.ts).       *)
(*   MailSpec : safeSendEmail (gmail-sender) called concurrently.          *)
(*   CommandSpec : the bot's /tweet and /email commands.                   *)
(*   ThreadSpec : TwitterClient.postThread.                                *)
(*   IgSpec : InstagramClient.post, request by request.                    *)
(*   CliSpec : the CLI's post command.                                     *)
(*   ContentSpec : ContentManager's files under content/<vertical>.        *)
(*                                                                         *)
(* The two programs are separate processes with separate registries       *)
(* (pendingConfirmations / pendingActions) and separate clocks.            *)
(***************************************************************************)
EXTENDS Integers, Sequences, FiniteSets, TLC

VARIABLES
    \* ---- security-gate.ts ----
    gpc,                  \* position of the gated executor
    kind,                 \* 'tweet' | 'email' | 'instagram'
    botToken, userId,     \* BOT_TOKEN / USER_ID are set (TRUE) or missing
    igConfigured,         \* InstagramClient.isConfigured()
    timeoutMs,            \* requestConfirmation's timeoutMs argument
    actionId,             \* crypto.randomBytes(8).toString('hex')
    pendingConfirmations, \* keys of the Map pendingConfirmations
    startTime,            \* const startTime = Date.now()
    intervalActive,       \* pollInterval is set and not cleared
    nextTick,             \* time of pollInterval's next firing
    fetching,             \* poll ticks awaiting their getUpdates response
    answering,            \* poll ticks awaiting answerCallbackQuery, per outcome
    outcome,              \* the Promise returned by requestConfirmation
    updates,              \* the update queue Telegram holds for the bot token
    gateNow,              \* Date.now() of the gate process
    platformCalls,        \* sendMail / v2.tweet / Instagram publish calls made
    prompts,              \* confirmation prompts sent (sendMessage with keyboard)
    completions,          \* completion messages sent after a successful call
    result,               \* value the executor's promise resolved to
    endedBy,              \* history: which event resolved the wait
    firstTap,             \* history: operator's first tap, made while pending with a poll still due before the TTL
    apiTrouble,           \* history: a polling request failed or outlasted a tick
    cause,                \* history: why the executor stopped
    observed,             \* history: <<cause, result>> of earlier runs
    runs,                 \* number of executor runs started
    text,                 \* the executor's payload (tweet text, html, caption)
    sentText,             \* payload the platform call was made with
    postId,               \* id the platform returned (result.data.id, messageId)
    resultUrl,            \* url / messageId field of the returned result
    delivered,            \* completion messages Telegram accepted
    removedBy,            \* history: event that deleted the action from the Map
    lateResolve,          \* history: value of the last resolve() call that was ignored
    promptStatus,         \* history: how the prompt's sendMessage settled
    \* ---- telegram-bot.ts ----
    pendingActions,       \* the Map pendingActions: id -> PendingAction
    issued,               \* ids generateActionId has returned
    handler,              \* id -> position of the confirm handler that owns it
    botNow,               \* Date of the bot process
    nextSweep,            \* time of the sweep setInterval's next firing
    removals,             \* history: id -> events that found it and removed it
    botCalls,             \* id -> twitterClient.post / sendEmail calls made
    published,            \* id -> 'pubblicato!' / 'inviata!' messages produced
    lateExec,             \* history: ids executed on a confirm after expiresAt
    stale,                \* history: ids tapped when no longer in the Map
    staleAnswers,         \* history: answerCbQuery texts given to such taps
    allowedUserId,        \* TELEGRAM_USER_ID is set in the bot's environment
    strangerRan,          \* history: handlers run for a sender other than the operator
    refused,              \* history: an update was answered 'Non autorizzato.'
    \* the CLI and the MCP server
    directPosts,          \* history: entry points that called TwitterClient themselves
    \* ---- prompt rendering (security-gate.ts:56-65) ----
    promptIn,             \* type, data and preview given to requestConfirmation
    promptOut,            \* the fields of the message text built from them
    \* ---- safeSendEmail (src/unnamed/part_009) ----
    mailPc,               \* call -> position of that safeSendEmail call
    sentToday,            \* messages to the recipient in Gmail's Sent folder today
    sendMailCalls,        \* transporter.sendMail calls made for the recipient
    \* ---- bot.command('tweet') / bot.command('email') ----
    queuedFrom,           \* history: id -> the command message that queued it
    buttonPrompts,        \* replies sent with confirm/cancel buttons
    cmdReplies,           \* history: the other replies the commands gave
    \* ---- TwitterClient.postThread ----
    threadPc,             \* "idle" | "posting" | "returned"
    tweets,               \* the texts postThread was given
    clientSet,            \* this.client is not null
    replyToId,            \* the loop's replyToId (NoPost: undefined)
    results,              \* the PostResult list built so far
    postCalls,            \* history: the options of each this.post call
    tweetRequests,        \* history: the client.v2.tweet requests made
    \* ---- InstagramClient.post ----
    igPc,                 \* "idle" | "creating" | "polling" | "publishing" | "permalink" | "returned"
    igPostType,           \* options.postType || 'feed'
    igMedia,              \* options.mediaUrls, each url by its class
    containers,           \* history: the containers created: type, video, last status seen
    attempt,              \* waitForMediaProcessing: i
    maxAttempts,          \* waitForMediaProcessing: maxAttempts of the current wait
    statusRequests,       \* history: status requests made by the current wait
    publishRequests,      \* history: media_publish requests made
    waitFailed,           \* history: a wait ended with ERROR or ran out of attempts
    igResult,             \* "none" | "success" | "failure"
    \* ---- the CLI's post command ----
    cliPc,                \* "idle" | a platform | "summary" | "done"
    cliOptions,           \* the flags given: twitter, reddit, linkedin, instagram, all
    cliConfigured,        \* the platforms whose client exists and isConfigured()
    cliResults,           \* const results: PostResult[]
    cliPrinted,           \* history: what printResult wrote, in order
    cliSummary,           \* history: what printSummary counted
    \* ---- ContentManager ----
    folders,              \* the folders that exist under content/<vertical>
    files,                \* <<folder, id>> -> the status inside that file
    created,              \* history: the ids createContent returned
    contentReturn         \* how the last call ended: "item" | "null" | "throw"

gateVars == <<gpc, kind, botToken, userId, igConfigured, timeoutMs, actionId,
              pendingConfirmations, startTime, intervalActive, nextTick,
              fetching, answering, outcome, updates, gateNow, platformCalls,
              prompts, completions, result, endedBy, firstTap, apiTrouble,
              cause, observed, runs, text, sentText, postId, resultUrl,
              delivered, removedBy, lateResolve, promptStatus>>

payloadVars == <<text, sentText, postId, resultUrl, delivered>>
raceVars == <<removedBy, lateResolve>>

botVars == <<pendingActions, issued, handler, botNow, nextSweep, removals,
             botCalls, published, lateExec, stale, staleAnswers,
             allowedUserId, strangerRan, refused>>

authVars == <<allowedUserId, strangerRan, refused>>

entryVars == <<directPosts>>

promptVars == <<promptIn, promptOut>>

mailVars == <<mailPc, sentToday, sendMailCalls>>

cmdVars == <<queuedFrom, buttonPrompts, cmdReplies>>

threadVars == <<threadPc, tweets, clientSet, replyToId, results, postCalls, tweetRequests>>

igVars == <<igPc, igPostType, igMedia, containers, attempt, maxAttempts,
           statusRequests, publishRequests, waitFailed, igResult>>

cliVars == <<cliPc, cliOptions, cliConfigured, cliResults, cliPrinted, cliSummary>>

contentVars == <<folders, files, created, contentReturn>>

libVars == <<promptVars, mailVars, cmdVars, threadVars, igVars, cliVars, contentVars>>

\* Everything but one library module's variables.
exceptPrompt == <<gateVars, botVars, entryVars, mailVars, cmdVars, threadVars, igVars, cliVars, contentVars>>
exceptMail == <<gateVars, botVars, entryVars, promptVars, cmdVars, threadVars, igVars, cliVars, contentVars>>
exceptBotCmd == <<gateVars, entryVars, promptVars, mailVars, threadVars, igVars, cliVars, contentVars>>
exceptThread == <<gateVars, botVars, entryVars, promptVars, mailVars, cmdVars, igVars, cliVars, contentVars>>
exceptIg == <<gateVars, botVars, entryVars, promptVars, mailVars, cmdVars, threadVars, cliVars, contentVars>>
exceptCli == <<gateVars, botVars, entryVars, promptVars, mailVars, cmdVars, threadVars, igVars, contentVars>>
exceptContent == <<gateVars, botVars, entryVars, promptVars, mailVars, cmdVars, threadVars, igVars, cliVars>>

vars == <<gateVars, botVars, entryVars, libVars>>

(***************************************************************************)
(* Bounds                                                                  *)
(***************************************************************************)
NumIds == 2          \* distinct action ids in play
MaxTimeout == 3      \* largest timeoutMs tried (seconds)
MaxInFlight == 2     \* poll ticks whose requests are outstanding at once
MaxUpdates == 2      \* updates arriving at Telegram during one run
MaxRuns == 2         \* executor runs compared with each other
MaxBotTime == 12     \* horizon of the bot clock (units of 30 s)

MaxThread == 3
MaxMedia == 2
MaxContent == 3
Ids == 1..NumIds
NoId == 0

(***************************************************************************)
(* Program constants                                                       *)
(***************************************************************************)
PollInterval == 2    \* setInterval(..., 2000), in seconds
SweepInterval == 2   \* setInterval(..., 60000), in units of 30 s
ExpiryDelay == 10    \* 5 * 60 * 1000 ms, in units of 30 s

Kinds == {"tweet", "email", "instagram"}

\* Payloads and platform ids: opaque values.
SampleText == "Hello world!"
Texts == {SampleText, "second text"}
PostIds == {"1001", "1002"}
NoText == "-"
NoPost == "-"
NoUrl == <<>>

(***************************************************************************)
(* security-gate.ts : pure parts                                           *)
(***************************************************************************)

\* if (!BOT_TOKEN || !USER_ID)
NotConfigured_TokenOnly(tok, uid) == ~tok

NotConfigured(tok, uid) == ~tok \/ ~uid

\* if (Date.now() - startTime > timeoutMs)
TimedOut_Late(now, start, tmo) == now - start > tmo + PollInterval

TimedOut(now, start, tmo) == now - start > tmo

\* getUpdates?offset=-1 : Telegram answers with the last update only
GetUpdates(q) == IF q = <<>> THEN <<>> ELSE <<q[Len(q)]>>

Confirm(id) == [kind |-> "confirm", id |-> id]
Cancel(id) == [kind |-> "cancel", id |-> id]
Message == [kind |-> "message", id |-> NoId]

\* callbackData === `confirm_${actionId}`
IsConfirm_AnyId(u, id) == u.kind = "confirm"

IsConfirm(u, id) == u = Confirm(id)

\* callbackData === `cancel_${actionId}`
IsCancel(u, id) == u = Cancel(id)

\* for (const update of updates.result): the first update that matches
\* decides; "none" when the loop falls through.
RECURSIVE ScanUpdates(_, _)
ScanUpdates(res, id) ==
    IF res = <<>> THEN "none"
    ELSE IF IsConfirm(Head(res), id) THEN "confirm"
    ELSE IF IsCancel(Head(res), id) THEN "cancel"
    ELSE ScanUpdates(Tail(res), id)

\* A promise settles once: later resolve() calls are ignored.
Resolve_Overwrite(cur, v) == v

Resolve(cur, v) == IF cur = "pending" THEN v ELSE cur

\* if (!confirmed) return {...cancelled...}
Proceeds_Always(confirmed) == TRUE

Proceeds(confirmed) == confirmed

NoResult == [success |-> FALSE, cancelled |-> FALSE, error |-> "-"]
\* { success: false, cancelled: true, error: 'User cancelled or timeout' }
CancelledResult ==
    [success |-> FALSE, cancelled |-> TRUE, error |-> "User cancelled or timeout"]
\* { success: false, error: error.message }
ErrorResult(msg) == [success |-> FALSE, cancelled |-> FALSE, error |-> msg]
\* { success: true, messageId / url }
SuccessResult == [success |-> TRUE, cancelled |-> FALSE, error |-> "none"]

\* const url = `https://twitter.com/i/status/${result.data.id}`
Url(pid) == <<"https://twitter.com/i/status/", pid>>

\* if (result.success) { ...notify... } : the Instagram executor tests the
\* client's result; sendMail / v2.tweet succeeded when they did not throw.
ShouldNotify_Always(r) == TRUE

ShouldNotify(r) == r = "ok"


(***************************************************************************)
(* security-gate.ts : state machine                                        *)
(***************************************************************************)
Outcomes == {"true", "false"}
NoAnswering == [v \in Outcomes |-> 0]
InFlight == fetching + answering["true"] + answering["false"]

\* The action was registered by this run (pendingConfirmations.set ran).
Registered == startTime >= 0

GateInit ==
    /\ gpc = "idle"
    /\ kind = "tweet"
    /\ botToken = FALSE
    /\ userId = FALSE
    /\ igConfigured = FALSE
    /\ timeoutMs = 1
    /\ actionId = NoId
    /\ pendingConfirmations = {}
    /\ startTime = -1
    /\ intervalActive = FALSE
    /\ nextTick = 0
    /\ fetching = 0
    /\ answering = NoAnswering
    /\ outcome = "pending"
    /\ updates = <<>>
    /\ gateNow = 0
    /\ platformCalls = 0
    /\ prompts = 0
    /\ completions = 0
    /\ result = NoResult
    /\ endedBy = "none"
    /\ firstTap = "none"
    /\ apiTrouble = FALSE
    /\ cause = "none"
    /\ observed = {}
    /\ runs = 0
    /\ text = NoText
    /\ sentText = NoText
    /\ postId = NoPost
    /\ resultUrl = NoUrl
    /\ delivered = 0
    /\ removedBy = "none"
    /\ lateResolve = "none"
    /\ promptStatus = "none"

\* The executor after `await requestConfirmation(...)` delivered c:
\* if (!confirmed) return {success: false, cancelled: true, ...}
AfterConfirmation(c, why) ==
    IF Proceeds(c)
    THEN /\ gpc' = "confirmed"
         /\ UNCHANGED <<result, cause>>
    ELSE /\ gpc' = "done"
         /\ result' = CancelledResult
         /\ cause' = why

\* resolve(v) of the promise created at security-gate.ts:89, and the awaiting
\* executor's continuation when this call settles the promise.
DoResolve(v, why) ==
    /\ outcome' = Resolve(outcome, v)
    /\ IF outcome' # outcome
       THEN /\ endedBy' = why
            /\ UNCHANGED lateResolve
            /\ IF gpc = "waiting"
               THEN AfterConfirmation(v = "true", why)
               ELSE UNCHANGED <<gpc, result, cause>>
       ELSE /\ lateResolve' = v
            /\ UNCHANGED <<endedBy, gpc, result, cause>>

\* sendEmailWithConfirmation / postTweetWithConfirmation /
\* postInstagramWithConfirmation up to the first await inside
\* requestConfirmation.
Invoke(k, tok, uid, igc, tmo, id, txt) ==
    /\ gpc = "idle"
    /\ runs < MaxRuns
    /\ k # "instagram" => ~igc
    /\ runs' = runs + 1
    /\ kind' = k
    /\ botToken' = tok
    /\ userId' = uid
    /\ igConfigured' = igc
    /\ timeoutMs' = tmo
    /\ actionId' = id
    /\ text' = txt
    /\ IF NotConfigured(tok, uid)
       THEN /\ AfterConfirmation(TRUE, "none")
            /\ UNCHANGED prompts
       ELSE /\ gpc' = "sending"
            /\ prompts' = prompts + 1
            /\ UNCHANGED <<result, cause>>
    /\ UNCHANGED <<pendingConfirmations, startTime, intervalActive, nextTick,
                   fetching, answering, outcome, updates, gateNow,
                   platformCalls, completions, endedBy, firstTap, apiTrouble, observed>>
    /\ UNCHANGED <<sentText, postId, resultUrl, delivered>>
    /\ UNCHANGED raceVars
    /\ UNCHANGED promptStatus
    /\ UNCHANGED botVars
    /\ UNCHANGED entryVars
    /\ UNCHANGED libVars

\* if (!response.ok) { ...; return false; }
ResponseOk_AnyStatus(r) == r # "throw"

ResponseOk(r) == r = "ok"

\* The sendMessage fetch settles: r = "ok" (response.ok), "notok" (HTTP error
\* status), "throw" (fetch rejects; requestConfirmation and the executor
\* reject with it).
SendReturn(r) ==
    /\ gpc = "sending"
    /\ CASE ResponseOk(r) ->
              /\ pendingConfirmations' = pendingConfirmations \cup {actionId}
              /\ startTime' = gateNow
              /\ intervalActive' = TRUE
              /\ nextTick' = gateNow + PollInterval
              /\ gpc' = "waiting"
              /\ UNCHANGED <<result, cause>>
         [] r = "notok" ->
              /\ AfterConfirmation(FALSE, "channel")
              /\ UNCHANGED <<pendingConfirmations, startTime, intervalActive,
                             nextTick>>
         [] OTHER ->
              /\ gpc' = "rejected"
              /\ cause' = "channel-throw"
              /\ UNCHANGED <<result, pendingConfirmations, startTime,
                             intervalActive, nextTick>>
    /\ UNCHANGED <<kind, botToken, userId, igConfigured, timeoutMs, actionId,
                   fetching, answering, outcome, updates, gateNow,
                   platformCalls, prompts, completions, endedBy, firstTap, apiTrouble,
                   observed, runs>>
    /\ UNCHANGED payloadVars
    /\ UNCHANGED raceVars
    /\ promptStatus' = r
    /\ UNCHANGED botVars
    /\ UNCHANGED entryVars
    /\ UNCHANGED libVars

\* Some poll tick can still read the update queue.
UpdatesStillRead == intervalActive \/ InFlight > 0

\* The operator taps a button of the prompt: Telegram queues the callback.
OperatorTap(k) ==
    /\ Registered
    /\ UpdatesStillRead
    /\ Len(updates) < MaxUpdates
    /\ updates' = Append(updates, [kind |-> k, id |-> actionId])
    /\ firstTap' = IF /\ firstTap = "none"
                      /\ actionId \in pendingConfirmations
                      /\ intervalActive
                      /\ ~TimedOut(nextTick, startTime, timeoutMs)
                   THEN k ELSE firstTap
    /\ UNCHANGED <<apiTrouble, gpc, kind, botToken, userId, igConfigured, timeoutMs,
                   actionId, pendingConfirmations, startTime, intervalActive,
                   nextTick, fetching, answering, outcome, gateNow,
                   platformCalls, prompts, completions, result, endedBy,
                   cause, observed, runs>>
    /\ UNCHANGED payloadVars
    /\ UNCHANGED raceVars
    /\ UNCHANGED promptStatus
    /\ UNCHANGED botVars
    /\ UNCHANGED entryVars
    /\ UNCHANGED libVars

\* Any other update reaches the bot token's queue: a chat message, or a
\* button of another prompt (a different action id).
OtherUpdate(u) ==
    /\ gpc = "sending" \/ (Registered /\ UpdatesStillRead)
    /\ u.id # actionId
    /\ Len(updates) < MaxUpdates
    /\ updates' = Append(updates, u)
    /\ UNCHANGED <<gpc, kind, botToken, userId, igConfigured, timeoutMs,
                   actionId, pendingConfirmations, startTime, intervalActive,
                   nextTick, fetching, answering, outcome, gateNow,
                   platformCalls, prompts, completions, result, endedBy,
                   firstTap, apiTrouble, cause, observed, runs>>
    /\ UNCHANGED payloadVars
    /\ UNCHANGED raceVars
    /\ UNCHANGED promptStatus
    /\ UNCHANGED botVars
    /\ UNCHANGED entryVars
    /\ UNCHANGED libVars

\* setInterval callback, up to its first await (security-gate.ts:101-121).
PollTick ==
    /\ intervalActive
    /\ gateNow >= nextTick
    /\ nextTick' = nextTick + PollInterval
    /\ apiTrouble' = (apiTrouble \/ InFlight > 0)
    /\ IF actionId \notin pendingConfirmations
       THEN /\ intervalActive' = FALSE
            /\ UNCHANGED <<pendingConfirmations, fetching, outcome, endedBy,
                           gpc, result, cause, raceVars>>
       ELSE IF TimedOut(gateNow, startTime, timeoutMs)
       THEN /\ intervalActive' = FALSE
            /\ pendingConfirmations' = pendingConfirmations \ {actionId}
            /\ removedBy' = "timeout"
            /\ DoResolve("false", "timeout")
            /\ UNCHANGED fetching
       ELSE /\ InFlight < MaxInFlight
            /\ fetching' = fetching + 1
            /\ UNCHANGED <<intervalActive, pendingConfirmations, outcome,
                           endedBy, gpc, result, cause, raceVars>>
    /\ UNCHANGED <<kind, botToken, userId, igConfigured, timeoutMs, actionId,
                   startTime, answering, updates, gateNow, platformCalls,
                   prompts, completions, firstTap, observed, runs>>
    /\ UNCHANGED payloadVars
    /\ UNCHANGED promptStatus
    /\ UNCHANGED botVars
    /\ UNCHANGED entryVars
    /\ UNCHANGED libVars

\* A tick's getUpdates fetch settles (security-gate.ts:119-161):
\* r = "throw" (fetch or json() rejects: caught and ignored), "noresult"
\* (a body without result), "result" (the loop over updates.result runs up to
\* the await of answerCallbackQuery).
FetchReturn(r) ==
    /\ fetching > 0
    /\ fetching' = fetching - 1
    /\ apiTrouble' = (apiTrouble \/ r # "result")
    /\ LET hit == IF r = "result"
                  THEN ScanUpdates(GetUpdates(updates), actionId)
                  ELSE "none"
       IN  IF hit = "none"
           THEN UNCHANGED <<intervalActive, pendingConfirmations, answering,
                            removedBy>>
           ELSE /\ intervalActive' = FALSE
                /\ pendingConfirmations' = pendingConfirmations \ {actionId}
                /\ removedBy' = IF actionId \in pendingConfirmations
                                THEN hit ELSE removedBy
                /\ answering' =
                     LET v == IF hit = "confirm" THEN "true" ELSE "false"
                     IN  [answering EXCEPT ![v] = @ + 1]
    /\ UNCHANGED <<gpc, kind, botToken, userId, igConfigured, timeoutMs,
                   actionId, startTime, nextTick, outcome, updates, gateNow,
                   platformCalls, prompts, completions, result, endedBy,
                   firstTap, cause, observed, runs>>
    /\ UNCHANGED <<payloadVars, lateResolve>>
    /\ UNCHANGED promptStatus
    /\ UNCHANGED botVars
    /\ UNCHANGED entryVars
    /\ UNCHANGED libVars

\* A tick's answerCallbackQuery fetch settles: r = "ok" runs resolve(v);
\* r = "throw" lands in the tick's catch, which ignores it.
AnswerReturn(v, r) ==
    /\ answering[v] > 0
    /\ answering' = [answering EXCEPT ![v] = @ - 1]
    /\ apiTrouble' = (apiTrouble \/ r # "ok")
    /\ IF r = "ok"
       THEN DoResolve(v, IF v = "true" THEN "confirm" ELSE "cancel")
       ELSE UNCHANGED <<outcome, endedBy, gpc, result, cause, lateResolve>>
    /\ UNCHANGED <<kind, botToken, userId, igConfigured, timeoutMs, actionId,
                   pendingConfirmations, startTime, intervalActive, nextTick,
                   fetching, updates, gateNow, platformCalls, prompts,
                   completions, firstTap, observed, runs>>
    /\ UNCHANGED <<payloadVars, removedBy>>
    /\ UNCHANGED promptStatus
    /\ UNCHANGED botVars
    /\ UNCHANGED entryVars
    /\ UNCHANGED libVars

\* if (!client.isConfigured()) return { success: false, error: ... } : only
\* the Instagram executor checks its client before calling it.
ClientReady_Always(k, igc) == TRUE

ClientReady(k, igc) == k = "instagram" => igc

\* The executor body after the confirmation, up to the platform call
\* (transporter.sendMail / client.v2.tweet / client.post|postReel|postStory).
PlatformCall ==
    /\ gpc = "confirmed"
    /\ IF ~ClientReady(kind, igConfigured)
       THEN /\ gpc' = "done"
            /\ result' = ErrorResult("Instagram not configured")
            /\ cause' = "not-configured"
            /\ UNCHANGED <<platformCalls, sentText>>
       ELSE /\ gpc' = "calling"
            /\ platformCalls' = platformCalls + 1
            /\ sentText' = text
            /\ UNCHANGED <<result, cause>>
    /\ UNCHANGED <<kind, botToken, userId, igConfigured, timeoutMs, actionId,
                   pendingConfirmations, startTime, intervalActive, nextTick,
                   fetching, answering, outcome, updates, gateNow, prompts,
                   completions, endedBy, firstTap, apiTrouble, observed, runs>>
    /\ UNCHANGED <<text, postId, resultUrl, delivered>>
    /\ UNCHANGED raceVars
    /\ UNCHANGED promptStatus
    /\ UNCHANGED botVars
    /\ UNCHANGED entryVars
    /\ UNCHANGED libVars

\* The platform call settles: "ok" with the id the platform assigned, "throw"
\* (caught: error.message is returned) or, for Instagram, "fail" (the client
\* returns success: false, which the executor returns without notifying).
PlatformReturn(r, pid) ==
    /\ gpc = "calling"
    /\ r = "fail" => kind = "instagram"
    /\ postId' = IF r = "ok" THEN pid ELSE NoPost
    /\ IF r # "throw" /\ ShouldNotify(r)
       THEN /\ gpc' = "notifying"
            /\ completions' = completions + 1
            /\ UNCHANGED <<result, cause>>
       ELSE /\ gpc' = "done"
            /\ result' = ErrorResult("platform error message")
            /\ cause' = "api"
            /\ UNCHANGED completions
    /\ UNCHANGED <<kind, botToken, userId, igConfigured, timeoutMs, actionId,
                   pendingConfirmations, startTime, intervalActive, nextTick,
                   fetching, answering, outcome, updates, gateNow,
                   platformCalls, prompts, endedBy, firstTap, apiTrouble, observed, runs>>
    /\ UNCHANGED <<text, sentText, resultUrl, delivered>>
    /\ UNCHANGED raceVars
    /\ UNCHANGED promptStatus
    /\ UNCHANGED botVars
    /\ UNCHANGED entryVars
    /\ UNCHANGED libVars

\* return { success: true, url } / { success: true, messageId } / result
ResultRef(k, pid) == IF k = "tweet" THEN Url(pid) ELSE <<pid>>

\* The completion sendMessage settles: r = "ok" (Telegram accepted the
\* message), "notok" (an HTTP error, which is all a request built from an
\* undefined token or chat id can get) or "throw" (the fetch rejected).  The
\* response is not looked at: any response lets the executor return the
\* platform's result; a rejected fetch lands in the executor's catch, which
\* returns the fetch error.
NotifyReturn(r) ==
    /\ gpc = "notifying"
    /\ r = "ok" => (botToken /\ userId)
    /\ gpc' = "done"
    /\ delivered' = IF r = "ok" THEN delivered + 1 ELSE delivered
    /\ IF r # "throw"
       THEN IF postId # NoPost
            THEN /\ result' = SuccessResult
                 /\ resultUrl' = ResultRef(kind, postId)
                 /\ cause' = "none"
            ELSE /\ result' = ErrorResult("platform error message")
                 /\ cause' = "api"
                 /\ UNCHANGED resultUrl
       ELSE /\ result' = ErrorResult("fetch failed")
            /\ cause' = "notify"
            /\ UNCHANGED resultUrl
    /\ UNCHANGED <<kind, botToken, userId, igConfigured, timeoutMs, actionId,
                   pendingConfirmations, startTime, intervalActive, nextTick,
                   fetching, answering, outcome, updates, gateNow,
                   platformCalls, prompts, completions, endedBy, firstTap, apiTrouble,
                   observed, runs>>
    /\ UNCHANGED <<text, sentText, postId>>
    /\ UNCHANGED raceVars
    /\ UNCHANGED promptStatus
    /\ UNCHANGED botVars
    /\ UNCHANGED entryVars
    /\ UNCHANGED libVars

\* One second passes; a due timer fires before the clock moves on.
AdvanceGate ==
    /\ intervalActive
    /\ gateNow < nextTick
    /\ gateNow' = gateNow + 1
    /\ UNCHANGED <<gpc, kind, botToken, userId, igConfigured, timeoutMs,
                   actionId, pendingConfirmations, startTime, intervalActive,
                   nextTick, fetching, answering, outcome, updates,
                   platformCalls, prompts, completions, result, endedBy,
                   firstTap, apiTrouble, cause, observed, runs>>
    /\ UNCHANGED payloadVars
    /\ UNCHANGED raceVars
    /\ UNCHANGED promptStatus
    /\ UNCHANGED botVars
    /\ UNCHANGED entryVars
    /\ UNCHANGED libVars

FailureCauses == {"cancel", "timeout", "channel", "api"}

\* The process ends (process.exit in the CLI test) and the command is run
\* again: a fresh module state.  The finished run is remembered in observed.
Restart ==
    /\ gpc = "done"
    /\ runs < MaxRuns
    /\ observed' = IF cause \in FailureCauses
                   THEN observed \cup {<<cause, result>>}
                   ELSE observed
    /\ gpc' = "idle"
    /\ kind' = "tweet"
    /\ botToken' = FALSE
    /\ userId' = FALSE
    /\ igConfigured' = FALSE
    /\ timeoutMs' = 1
    /\ actionId' = NoId
    /\ pendingConfirmations' = {}
    /\ startTime' = -1
    /\ intervalActive' = FALSE
    /\ nextTick' = 0
    /\ fetching' = 0
    /\ answering' = NoAnswering
    /\ outcome' = "pending"
    /\ updates' = <<>>
    /\ gateNow' = 0
    /\ platformCalls' = 0
    /\ prompts' = 0
    /\ completions' = 0
    /\ result' = NoResult
    /\ endedBy' = "none"
    /\ firstTap' = "none"
    /\ apiTrouble' = FALSE
    /\ cause' = "none"
    /\ text' = NoText
    /\ sentText' = NoText
    /\ postId' = NoPost
    /\ resultUrl' = NoUrl
    /\ delivered' = 0
    /\ removedBy' = "none"
    /\ lateResolve' = "none"
    /\ UNCHANGED runs
    /\ promptStatus' = "none"
    /\ UNCHANGED botVars
    /\ UNCHANGED entryVars
    /\ UNCHANGED libVars

OtherUpdates ==
    {Message} \cup {[kind |-> k, id |-> i] : k \in {"confirm", "cancel"}, i \in Ids}

\* Every step of a run after the executor was called.
GateSteps ==
    \/ \E r \in {"ok", "notok", "throw"} : SendReturn(r)
    \/ \E k \in {"confirm", "cancel"} : OperatorTap(k)
    \/ \E u \in OtherUpdates : OtherUpdate(u)
    \/ PollTick
    \/ \E r \in {"throw", "noresult", "result"} : FetchReturn(r)
    \/ \E v \in Outcomes, r \in {"ok", "throw"} : AnswerReturn(v, r)
    \/ PlatformCall
    \/ \E r \in {"ok", "throw", "fail"}, pid \in PostIds : PlatformReturn(r, pid)
    \/ \E r \in {"ok", "notok", "throw"} : NotifyReturn(r)
    \/ AdvanceGate

\* Any executor, any configuration, one payload.
GateNext ==
    \/ \E k \in Kinds, tok \in BOOLEAN, uid \in BOOLEAN, igc \in BOOLEAN,
          tmo \in 1..MaxTimeout, id \in Ids :
              Invoke(k, tok, uid, igc, tmo, id, SampleText)
    \/ GateSteps

\* postTweetWithConfirmation(text) with the gate configured: any text, and
\* timeouts long enough for a second poll tick to start before the TTL.
TweetNext ==
    \/ \E tmo \in 1..(2 * PollInterval), id \in Ids, txt \in Texts :
              Invoke("tweet", TRUE, TRUE, FALSE, tmo, id, txt)
    \/ GateSteps

(***************************************************************************)
(* telegram-bot.ts : pending-action queue                                  *)
(***************************************************************************)
NoAction == [type |-> "none", expiresAt |-> 0]
EmptyRegistry == [i \in {} |-> NoAction]

\* pendingActions.get(actionId); undefined when the key is absent
Lookup_Stale(reg, id) ==
    IF id \in DOMAIN reg THEN reg[id] ELSE [type |-> "tweet", expiresAt |-> 0]

Lookup(reg, id) == IF id \in DOMAIN reg THEN reg[id] ELSE NoAction

\* pendingActions.delete(actionId)
Delete_Keep(reg, id) == reg

Delete(reg, id) == [i \in DOMAIN reg \ {id} |-> reg[i]]

\* pendingActions.set(id, {..., expiresAt: now + 5 min})
Set(reg, id, type, now) ==
    [i \in DOMAIN reg \cup {id} |->
        IF i = id THEN [type |-> type, expiresAt |-> now + ExpiryDelay]
        ELSE reg[i]]

\* if (action.expiresAt < now)
Expired_Early(action, now) == action.expiresAt <= now

Expired(action, now) == action.expiresAt < now

\* The sweep's loop over the Map: every expired entry is deleted.
SweepExpired(reg, now) ==
    [i \in {j \in DOMAIN reg : ~Expired(reg[j], now)} |-> reg[i]]

\* answerCbQuery texts of the two handlers
ExpiredAnswer == "Azione scaduta o già eseguita"
ExecutedAnswer == "Azione eseguita"
CancelledAnswer == "Annullato"

\* The confirm handler's answer for what pendingActions.get returned
\* (not found: line 509).
ConfirmAnswer(action) ==
    IF action = NoAction THEN ExpiredAnswer ELSE ExecutedAnswer

\* The cancel handler's answer (line 559), whatever get returned.
CancelAnswer(action) == CancelledAnswer

Senders == {"operator", "stranger"}

\* The security middleware lets the update through:
\* !(ALLOWED_USER_ID && userId !== ALLOWED_USER_ID)
Authorized(allowed, from) == ~(allowed /\ from # "operator")

\* The module state of telegram-bot.ts once loaded.
BotLoaded ==
    /\ pendingActions = EmptyRegistry
    /\ issued = {}
    /\ handler = [i \in Ids |-> "none"]
    /\ botNow = 0
    /\ nextSweep = SweepInterval
    /\ removals = [i \in Ids |-> <<>>]
    /\ botCalls = [i \in Ids |-> 0]
    /\ published = [i \in Ids |-> 0]
    /\ lateExec = {}
    /\ stale = {}
    /\ staleAnswers = {}
    /\ strangerRan = {}
    /\ refused = FALSE

\* The bot started with TELEGRAM_USER_ID set, as the setup guide tells.
BotInit == BotLoaded /\ allowedUserId = TRUE

\* The bot started with or without TELEGRAM_USER_ID (only the token is
\* required, lines 114-117).
AnyEnvInit == BotLoaded /\ allowedUserId \in BOOLEAN

\* What the handlers record when they run for a sender.
RanFor(from, h) ==
    strangerRan' = IF from # "operator" THEN strangerRan \cup {h} ELSE strangerRan

\* bot.command('tweet') / bot.command('email') with accepted arguments:
\* queueAction(type, data, preview), then the prompt with the two buttons.
\* generateActionId: 8 random bytes, modelled as an id not issued before.
QueueCommand(from, type, id) ==
    /\ Authorized(allowedUserId, from)
    /\ id \in Ids \ issued
    /\ issued' = issued \cup {id}
    /\ pendingActions' = Set(pendingActions, id, type, botNow)
    /\ RanFor(from, "command")
    /\ UNCHANGED <<handler, botNow, nextSweep, removals, botCalls, published,
                   lateExec, stale, staleAnswers, allowedUserId, refused>>
    /\ UNCHANGED gateVars
    /\ UNCHANGED entryVars
    /\ UNCHANGED libVars

\* bot.action(/^confirm_(.+)$/) up to its first await: the not-found path
\* (lines 508-512) only answers the operator; the found path deletes the
\* entry and starts the first editMessageText (lines 514-530).
ConfirmTap(from, id) ==
    /\ Authorized(allowedUserId, from)
    /\ id \in issued
    /\ RanFor(from, "confirm")
    /\ LET action == Lookup(pendingActions, id)
       IN  IF action = NoAction
           THEN /\ stale' = stale \cup {id}
                /\ staleAnswers' = staleAnswers \cup {ConfirmAnswer(action)}
                /\ UNCHANGED <<pendingActions, handler, removals, lateExec>>
           ELSE /\ pendingActions' = Delete(pendingActions, id)
                /\ removals' = [removals EXCEPT ![id] = Append(@, "confirm")]
                /\ handler' = [handler EXCEPT ![id] = "editing"]
                /\ lateExec' = IF botNow > action.expiresAt
                               THEN lateExec \cup {id} ELSE lateExec
                /\ UNCHANGED <<stale, staleAnswers>>
    /\ UNCHANGED <<issued, botNow, nextSweep, botCalls, published,
                   allowedUserId, refused>>
    /\ UNCHANGED gateVars
    /\ UNCHANGED entryVars
    /\ UNCHANGED libVars

\* The confirm handler's editMessageText('Pubblicando...' / 'Inviando...')
\* settles: "ok" starts twitterClient.post / sendEmail; "throw" lands in the
\* handler's catch (lines 544-547), which only answers the operator.
HandlerEdited(id, r) ==
    /\ handler[id] = "editing"
    /\ IF r = "ok"
       THEN /\ handler' = [handler EXCEPT ![id] = "calling"]
            /\ botCalls' = [botCalls EXCEPT ![id] = @ + 1]
       ELSE /\ handler' = [handler EXCEPT ![id] = "done"]
            /\ UNCHANGED botCalls
    /\ UNCHANGED <<pendingActions, issued, botNow, nextSweep, removals,
                   published, lateExec, stale>>
    /\ UNCHANGED <<staleAnswers, authVars>>
    /\ UNCHANGED gateVars
    /\ UNCHANGED entryVars
    /\ UNCHANGED libVars

\* twitterClient.post / sendEmail settles with a result object (both catch
\* their own errors): success edits the prompt into the 'pubblicato!' /
\* 'inviata!' message, failure into the error text; then answerCbQuery.
HandlerCalled(id, r) ==
    /\ handler[id] = "calling"
    /\ handler' = [handler EXCEPT ![id] = "done"]
    /\ published' = IF r = "ok"
                    THEN [published EXCEPT ![id] = @ + 1]
                    ELSE published
    /\ UNCHANGED <<pendingActions, issued, botNow, nextSweep, removals,
                   botCalls, lateExec, stale>>
    /\ UNCHANGED <<staleAnswers, authVars>>
    /\ UNCHANGED gateVars
    /\ UNCHANGED entryVars
    /\ UNCHANGED libVars

\* bot.action(/^cancel_(.+)$/), whole (lines 551-561).
CancelTap(from, id) ==
    /\ Authorized(allowedUserId, from)
    /\ id \in issued
    /\ RanFor(from, "cancel")
    /\ LET action == Lookup(pendingActions, id)
       IN  IF action # NoAction
           THEN /\ pendingActions' = Delete(pendingActions, id)
                /\ removals' = [removals EXCEPT ![id] = Append(@, "cancel")]
                /\ UNCHANGED <<stale, staleAnswers>>
           ELSE /\ stale' = stale \cup {id}
                /\ staleAnswers' = staleAnswers \cup {CancelAnswer(action)}
                /\ UNCHANGED <<pendingActions, removals>>
    /\ UNCHANGED <<issued, handler, botNow, nextSweep, botCalls, published,
                   lateExec, allowedUserId, refused>>
    /\ UNCHANGED gateVars
    /\ UNCHANGED entryVars
    /\ UNCHANGED libVars

\* The security middleware stops an update (lines 139-143): the sender is
\* told 'Non autorizzato.' and no handler runs.
Refuse(from) ==
    /\ ~Authorized(allowedUserId, from)
    /\ refused' = TRUE
    /\ UNCHANGED <<pendingActions, issued, handler, botNow, nextSweep,
                   removals, botCalls, published, lateExec, stale,
                   staleAnswers, allowedUserId, strangerRan>>
    /\ UNCHANGED gateVars
    /\ UNCHANGED entryVars
    /\ UNCHANGED libVars

\* The setInterval callback of lines 71-79.
Sweep ==
    /\ botNow >= nextSweep
    /\ nextSweep' = nextSweep + SweepInterval
    /\ pendingActions' = SweepExpired(pendingActions, botNow)
    /\ removals' = [i \in Ids |->
                      IF i \in DOMAIN pendingActions /\ i \notin DOMAIN pendingActions'
                      THEN Append(removals[i], "sweep") ELSE removals[i]]
    /\ UNCHANGED <<issued, handler, botNow, botCalls, published, lateExec,
                   stale>>
    /\ UNCHANGED <<staleAnswers, authVars>>
    /\ UNCHANGED gateVars
    /\ UNCHANGED entryVars
    /\ UNCHANGED libVars

\* Thirty seconds pass; a due sweep runs before the clock moves on.
AdvanceBot ==
    /\ botNow < nextSweep
    /\ botNow < MaxBotTime
    /\ botNow' = botNow + 1
    /\ UNCHANGED <<pendingActions, issued, handler, nextSweep, removals,
                   botCalls, published, lateExec, stale>>
    /\ UNCHANGED <<staleAnswers, authVars>>
    /\ UNCHANGED gateVars
    /\ UNCHANGED entryVars
    /\ UNCHANGED libVars

\* The bot runs on the token the gate polls.  Telegraf's long polling takes
\* the oldest update off the token's queue and dispatches it; a button of a
\* gate prompt carries an id the bot's Map does not hold, so its handler
\* takes the not-found path (confirm) or answers as always (cancel).
BotReceives ==
    /\ updates # <<>>
    /\ updates' = Tail(updates)
    /\ LET u == Head(updates)
           action == Lookup(pendingActions, u.id)
       IN  IF u.kind \in {"confirm", "cancel"} /\ action = NoAction
           THEN /\ stale' = stale \cup {u.id}
                /\ staleAnswers' = staleAnswers \cup
                      {IF u.kind = "confirm" THEN ConfirmAnswer(action)
                       ELSE CancelAnswer(action)}
           ELSE UNCHANGED <<stale, staleAnswers>>
    /\ UNCHANGED <<gpc, kind, botToken, userId, igConfigured, timeoutMs,
                   actionId, pendingConfirmations, startTime, intervalActive,
                   nextTick, fetching, answering, outcome, gateNow,
                   platformCalls, prompts, completions, result, endedBy,
                   firstTap, apiTrouble, cause, observed, runs>>
    /\ UNCHANGED <<payloadVars, raceVars, promptStatus>>
    /\ UNCHANGED <<pendingActions, issued, handler, botNow, nextSweep,
                   removals, botCalls, published, lateExec, authVars>>
    /\ UNCHANGED entryVars
    /\ UNCHANGED libVars

\* A gated tweet while the bot is running on the same token.
SharedTokenNext ==
    \/ \E tmo \in 1..MaxTimeout, id \in Ids :
           Invoke("tweet", TRUE, TRUE, FALSE, tmo, id, SampleText)
    \/ GateSteps
    \/ BotReceives

\* The configured bot and its operator.
BotNext ==
    \/ \E t \in {"tweet", "email"}, id \in Ids : QueueCommand("operator", t, id)
    \/ \E id \in Ids : ConfirmTap("operator", id)
    \/ \E id \in Ids, r \in {"ok", "throw"} : HandlerEdited(id, r)
    \/ \E id \in Ids, r \in {"ok", "fail"} : HandlerCalled(id, r)
    \/ \E id \in Ids : CancelTap("operator", id)
    \/ Sweep
    \/ AdvanceBot

\* The queue and its sweep timer alone: commands arrive, time passes, no
\* button is tapped.
SweepNext ==
    \/ \E t \in {"tweet", "email"}, id \in Ids : QueueCommand("operator", t, id)
    \/ Sweep
    \/ AdvanceBot

\* Updates from any sender, within the lifetime of the queued actions.
AnySenderNext ==
    \/ \E from \in Senders, t \in {"tweet", "email"}, id \in Ids :
           QueueCommand(from, t, id)
    \/ \E from \in Senders, id \in Ids : ConfirmTap(from, id)
    \/ \E id \in Ids, r \in {"ok", "throw"} : HandlerEdited(id, r)
    \/ \E id \in Ids, r \in {"ok", "fail"} : HandlerCalled(id, r)
    \/ \E from \in Senders, id \in Ids : CancelTap(from, id)
    \/ \E from \in Senders : Refuse(from)

(***************************************************************************)
(* security-gate.ts : the prompt text                                      *)
(*                                                                         *)
(* A string is the sequence of its characters.  A plain character is       *)
(* written as its position in the text it comes from, so that a piece of   *)
(* a text is recognisable; "<" and ">" are themselves.                     *)
(***************************************************************************)
CaptionPreviewLen == 150    \* preview.substring(0, 150)
EmailPreviewLen == 200      \* .substring(0, 200)

MaxOver == 2                \* characters by which a text exceeds a preview length

Min(a, b) == IF a < b THEN a ELSE b

\* s.substring(0, n)
Substring_Whole(s, n) == s

Substring(s, n) == SubSeq(s, 1, Min(n, Len(s)))

Smallest(S) == CHOOSE x \in S : \A y \in S : x <= y

\* html.replace(/<[^>]*>/g, '') from position i on: the next "<" that has a
\* ">" after it is removed together with everything up to the first such
\* ">", the text before it is kept, and the search goes on behind the ">";
\* a "<" never closed stays.
RECURSIVE StripFrom(_, _)
StripFrom(s, i) ==
    LET opens == {j \in i..Len(s) :
                     s[j] = "<" /\ \E c \in (j + 1)..Len(s) : s[c] = ">"}
    IN  IF opens = {}
        THEN SubSeq(s, i, Len(s))
        ELSE LET j == Smallest(opens)
                 c == Smallest({k \in (j + 1)..Len(s) : s[k] = ">"})
             IN  SubSeq(s, i, j - 1) \o StripFrom(s, c + 1)

StripTags(html) == StripFrom(html, 1)

\* n plain characters
Plain(n) == [i \in 1..n |-> ToString(i)]

\* Texts of n plain characters with markup placed in them.
Marked(n, how) ==
    CASE how = "plain" -> Plain(n)
      [] how = "tag-first" -> <<"<", "b", ">">> \o Plain(n)
      [] how = "tag-inside" ->
            SubSeq(Plain(n), 1, n \div 2) \o <<"<", "br", ">">>
               \o SubSeq(Plain(n), n \div 2 + 1, n)
      [] how = "open-bracket" -> Plain(n) \o <<"<", "x">>
      [] how = "two-tags" -> <<"<", "p", ">">> \o Plain(n) \o <<"<", "/", "p", ">">>

Markups == {"plain", "tag-first", "tag-inside", "open-bracket", "two-tags"}

PostTypes == {"feed", "reels", "stories"}
NoPostType == "undefined"

NoPrompt == [type |-> "none"]

PromptInit == promptIn = NoPrompt /\ promptOut = NoPrompt

\* The message text requestConfirmation builds (lines 56-65), as its fields.
PromptMessage(type, data, preview) ==
    CASE type = "tweet" ->
            [type |-> "tweet", text |-> preview, length |-> Len(preview)]
      [] type = "email" ->
            [type |-> "email", to |-> data.to, subject |-> data.subject,
             preview |-> Substring(preview, EmailPreviewLen)]
      [] type = "instagram" ->
            [type |-> "instagram",
             postType |-> IF data.postType = NoPostType THEN "feed" ELSE data.postType,
             caption |-> Substring(preview, CaptionPreviewLen),
             media |-> data.media]

\* sendEmailWithConfirmation(to, subject, html) up to the prompt:
\* preview = html.replace(...).substring(0, 200), then requestConfirmation.
RenderEmailPrompt(to, subject, html) ==
    LET preview == Substring(StripTags(html), EmailPreviewLen)
        data == [to |-> to, subject |-> subject, html |-> html]
    IN  /\ promptIn = NoPrompt
        /\ promptIn' = [type |-> "email", data |-> data, preview |-> preview]
        /\ promptOut' = PromptMessage("email", data, preview)
        /\ UNCHANGED exceptPrompt

\* postInstagramWithConfirmation(caption, mediaUrls, options) up to the
\* prompt: postType = options?.postType || 'feed', preview = caption.
RenderInstagramPrompt(caption, media, optType) ==
    LET postType == IF optType = NoPostType THEN "feed" ELSE optType
        data == [caption |-> caption, media |-> media, postType |-> postType]
    IN  /\ promptIn = NoPrompt
        /\ promptIn' = [type |-> "instagram", data |-> data, preview |-> caption]
        /\ promptOut' = PromptMessage("instagram", data, caption)
        /\ UNCHANGED exceptPrompt

\* postTweetWithConfirmation(text) up to the prompt: preview = text.
RenderTweetPrompt(text0) ==
    LET data == [text |-> text0]
    IN  /\ promptIn = NoPrompt
        /\ promptIn' = [type |-> "tweet", data |-> data, preview |-> text0]
        /\ promptOut' = PromptMessage("tweet", data, text0)
        /\ UNCHANGED exceptPrompt

\* One executor call renders one prompt.
PromptNext ==
    \/ \E n \in 0..(EmailPreviewLen + MaxOver), how \in Markups :
           RenderEmailPrompt("a@b.c", "subject", Marked(n, how))
    \/ \E n \in 0..(CaptionPreviewLen + MaxOver), m \in 0..1,
          t \in PostTypes \cup {NoPostType} :
           RenderInstagramPrompt(Plain(n), m, t)
    \/ \E n \in {0, 1, CaptionPreviewLen + MaxOver} : RenderTweetPrompt(Plain(n))

(***************************************************************************)
(* safeSendEmail / wasEmailSentToday (src/unnamed/part_009)                *)
(* Calls addressed to one recipient on one day.                            *)
(***************************************************************************)
MaxCalls == 3               \* safeSendEmail calls to the recipient

Calls == 1..MaxCalls

MailInit ==
    /\ mailPc = [c \in Calls |-> "idle"]
    /\ sentToday = 0
    /\ sendMailCalls = 0

\* !!(res.data.messages && res.data.messages.length > 0)
AlreadySent(found) == found > 0

\* safeSendEmail is called: wasEmailSentToday starts, up to its
\* gmail.users.messages.list request.
SafeSendEmail(c) ==
    /\ mailPc[c] = "idle"
    /\ mailPc' = [mailPc EXCEPT ![c] = "checking"]
    /\ UNCHANGED <<sentToday, sendMailCalls>>
    /\ UNCHANGED exceptMail

\* wasEmailSentToday returns: r = "listed" (the list request answered with
\* what the Sent folder holds now), "unconfigured" (no OAuth files: false)
\* or "throw" (any error: caught, false).  safeSendEmail then returns the
\* blocked result or goes on to transporter.sendMail.
CheckReturn(c, r) ==
    /\ mailPc[c] = "checking"
    /\ LET alreadySent == IF r = "listed" THEN AlreadySent(sentToday) ELSE FALSE
       IN  IF alreadySent
           THEN /\ mailPc' = [mailPc EXCEPT ![c] = "blocked"]
                /\ UNCHANGED sendMailCalls
           ELSE /\ mailPc' = [mailPc EXCEPT ![c] = "sending"]
                /\ sendMailCalls' = sendMailCalls + 1
    /\ UNCHANGED sentToday
    /\ UNCHANGED exceptMail

\* transporter.sendMail settles: "ok" (the message is in the Sent folder,
\* { success: true, messageId }) or "throw" ({ success: false, error }).
SendMailReturn(c, r) ==
    /\ mailPc[c] = "sending"
    /\ IF r = "ok"
       THEN /\ mailPc' = [mailPc EXCEPT ![c] = "sent"]
            /\ sentToday' = sentToday + 1
       ELSE /\ mailPc' = [mailPc EXCEPT ![c] = "failed"]
            /\ UNCHANGED sentToday
    /\ UNCHANGED sendMailCalls
    /\ UNCHANGED exceptMail

MailNext ==
    \/ \E c \in Calls : SafeSendEmail(c)
    \/ \E c \in Calls, r \in {"listed", "unconfigured", "throw"} : CheckReturn(c, r)
    \/ \E c \in Calls, r \in {"ok", "throw"} : SendMailReturn(c, r)

(***************************************************************************)
(* telegram-bot.ts : the /tweet and /email commands                        *)
(*                                                                         *)
(* A message text is the sequence of its pieces: the command word, " ",    *)
(* "|", "@", a bot-name suffix, and letters.                               *)
(***************************************************************************)
\* Position of the first occurrence of pat in s; 0 when there is none.
IndexOf(s, pat) ==
    LET at == {i \in 1..(Len(s) - Len(pat) + 1) :
                  SubSeq(s, i, i + Len(pat) - 1) = pat}
    IN  IF at = {} THEN 0 ELSE Smallest(at)

\* s.replace(pat, ''): the first occurrence only
RemoveFirst(s, pat) ==
    LET i == IndexOf(s, pat)
    IN  IF i = 0 THEN s
        ELSE SubSeq(s, 1, i - 1) \o SubSeq(s, i + Len(pat), Len(s))

\* s.trim()
Trim(s) ==
    LET solid == {i \in 1..Len(s) : s[i] # " "}
    IN  IF solid = {} THEN <<>>
        ELSE SubSeq(s, Smallest(solid), CHOOSE x \in solid : \A y \in solid : y <= x)

\* s.split('|').map(p => p.trim())
RECURSIVE SplitTrim(_)
SplitTrim(s) ==
    LET i == IndexOf(s, <<"|">>)
    IN  IF i = 0 THEN <<Trim(s)>>
        ELSE <<Trim(SubSeq(s, 1, i - 1))>> \o SplitTrim(SubSeq(s, i + 1, Len(s)))

\* to.includes('@')
Includes(s, piece) == \E i \in 1..Len(s) : s[i] = piece

\* ctx.message.text.replace('/tweet ', '').trim()
CommandArgs(msg, word) == Trim(RemoveFirst(msg, <<word, " ">>))

\* if (!text || text === '/tweet') : the usage reply
NoArgs(args, word) == args = <<>> \/ args = <<word>>

TweetMessages ==
    { <<"/tweet">>, <<"/tweet", " ">>, <<"/tweet", " ", " ">>,
      <<"/tweet", " ", "h", "i">>, <<"/tweet", " ", "h", " ", "i", " ">>,
      <<"/tweet", "@bot">>, <<"/tweet", "@bot", " ", "h", "i">> }

EmailMessages ==
    { <<"/email">>, <<"/email", " ">>,
      <<"/email", " ", "a", "@", "b">>,
      <<"/email", " ", "a", "@", "b", " ", "|", " ", "s">>,
      <<"/email", " ", "a", "@", "b", "|", "s", "|", "h">>,
      <<"/email", " ", "a", "@", "b", " ", "|", " ", "s", " ", "|", " ", "h", "|", "i">>,
      <<"/email", " ", "a", "b", "|", "s", "|", "h">>,
      <<"/email", " ", "|", "s", "|", "h">>,
      <<"/email", " ", "a", "|", "s", "@", "|", "h">> }

CmdInit ==
    /\ queuedFrom = EmptyRegistry
    /\ buttonPrompts = 0
    /\ cmdReplies = {}

\* A command ends with a plain reply and nothing else.
JustReply(text0) ==
    /\ cmdReplies' = cmdReplies \cup {text0}
    /\ UNCHANGED <<queuedFrom, buttonPrompts>>
    /\ UNCHANGED botVars

\* queueAction and the reply with the two buttons.
QueueAndPrompt(type, id, msg) ==
    /\ issued' = issued \cup {id}
    /\ pendingActions' = Set(pendingActions, id, type, botNow)
    /\ queuedFrom' = [i \in DOMAIN queuedFrom \cup {id} |->
                         IF i = id THEN msg ELSE queuedFrom[i]]
    /\ buttonPrompts' = buttonPrompts + 1
    /\ UNCHANGED <<handler, botNow, nextSweep, removals, botCalls, published,
                   lateExec, stale, staleAnswers, authVars>>
    /\ UNCHANGED cmdReplies

\* bot.command('tweet') for the message msg, twitterClient.isConfigured()
\* being cfg; id is what generateActionId returns if it gets that far.
TweetCommand(msg, cfg, id) ==
    /\ id \in Ids \ issued
    /\ LET text0 == CommandArgs(msg, "/tweet")
       IN  IF NoArgs(text0, "/tweet") THEN JustReply("Uso: /tweet")
           ELSE IF ~cfg THEN JustReply("Twitter non configurato")
           ELSE QueueAndPrompt("tweet", id, msg)
    /\ UNCHANGED exceptBotCmd

\* bot.command('email') for the message msg.
EmailCommand(msg, id) ==
    /\ id \in Ids \ issued
    /\ LET args == CommandArgs(msg, "/email")
           parts == SplitTrim(args)
       IN  IF NoArgs(args, "/email") THEN JustReply("Uso: /email")
           ELSE IF Len(parts) < 3 THEN JustReply("Formato: /email to | subject | body")
           ELSE IF ~Includes(parts[1], "@")
                THEN JustReply("Email destinatario non valida")
           ELSE QueueAndPrompt("email", id, msg)
    /\ UNCHANGED exceptBotCmd

CommandNext ==
    \/ \E msg \in TweetMessages, cfg \in BOOLEAN, id \in Ids : TweetCommand(msg, cfg, id)
    \/ \E msg \in EmailMessages, id \in Ids : EmailCommand(msg, id)

(***************************************************************************)
(* clients/twitter.ts : TwitterClient.postThread                           *)
(***************************************************************************)
ThreadTexts == {"a", "b"}

\* The lists of at most MaxThread texts.
Threads == UNION {[1..n -> ThreadTexts] : n \in 0..MaxThread}

ThreadInit ==
    /\ threadPc = "idle"
    /\ tweets = <<>>
    /\ clientSet = FALSE
    /\ replyToId = NoPost
    /\ results = <<>>
    /\ postCalls = <<>>
    /\ tweetRequests = <<>>

Success(pid) == [success |-> TRUE, postId |-> pid]
Failure == [success |-> FALSE, postId |-> NoPost]

\* if (result.success && result.postId) ... else break
ThreadContinues_Always(res) == TRUE

ThreadContinues(res) == res.success /\ res.postId # NoPost

\* postThread(tweets) is called on a client built with or without config.
PostThread(list, configured) ==
    /\ threadPc = "idle"
    /\ threadPc' = "posting"
    /\ tweets' = list
    /\ clientSet' = configured
    /\ replyToId' = NoPost
    /\ results' = <<>>
    /\ UNCHANGED <<postCalls, tweetRequests>>
    /\ UNCHANGED exceptThread

\* One pass of the loop: this.post({text, replyToId}) and what follows it.
\* Without a client post returns a failure at once; otherwise the tweet
\* request is made and r is how it ends, pid the id Twitter gave.
ThreadStep(r, pid) ==
    /\ threadPc = "posting"
    /\ Len(results) < Len(tweets)
    /\ LET text0 == tweets[Len(results) + 1]
           res == IF clientSet /\ r = "ok" THEN Success(pid) ELSE Failure
       IN  /\ postCalls' = Append(postCalls, [text |-> text0, replyToId |-> replyToId])
           /\ tweetRequests' =
                 IF clientSet
                 THEN Append(tweetRequests, [text |-> text0, reply |-> replyToId])
                 ELSE tweetRequests
           /\ results' = Append(results, res)
           /\ IF ThreadContinues(res)
              THEN /\ replyToId' = res.postId
                   /\ threadPc' = "posting"
              ELSE /\ replyToId' = replyToId
                   /\ threadPc' = "stopped"
    /\ UNCHANGED <<tweets, clientSet>>
    /\ UNCHANGED exceptThread

\* The loop is over (list exhausted or break): return results.
ThreadReturn ==
    /\ \/ threadPc = "stopped"
       \/ threadPc = "posting" /\ Len(results) = Len(tweets)
    /\ threadPc' = "returned"
    /\ UNCHANGED <<tweets, clientSet, replyToId, results, postCalls, tweetRequests>>
    /\ UNCHANGED exceptThread

\* The next postThread call.
ThreadAgain ==
    /\ threadPc = "returned"
    /\ threadPc' = "idle"
    /\ tweets' = <<>>
    /\ clientSet' = FALSE
    /\ replyToId' = NoPost
    /\ results' = <<>>
    /\ postCalls' = <<>>
    /\ tweetRequests' = <<>>
    /\ UNCHANGED exceptThread

ThreadNext ==
    \/ \E list \in Threads, configured \in BOOLEAN : PostThread(list, configured)
    \/ \E r \in {"ok", "throw"}, pid \in PostIds : ThreadStep(r, pid)
    \/ ThreadReturn
    \/ ThreadAgain

(***************************************************************************)
(* clients/instagram.ts : InstagramClient.post                             *)
(*                                                                         *)
(* A media url is one of three classes: "jpg" (no video mark), "mp4" (ends *)
(* with .mp4 or .mov), "videoPath" (contains 'video' but does not end with *)
(* .mp4 or .mov).                                                          *)
(***************************************************************************)
DefaultAttempts == 30
ReelsAttempts == 60
StoriesAttempts == 30

UrlClasses == {"jpg", "mp4", "videoPath"}

MediaLists == UNION {[1..n -> UrlClasses] : n \in 0..MaxMedia}

IgPostTypes == {"feed", "reels", "stories"}

\* url.endsWith('.mp4') || url.endsWith('.mov')
EndsAsVideo(url) == url = "mp4"

\* url.endsWith('.mp4') || url.endsWith('.mov') || url.includes('video')
LooksLikeVideo(url) == url \in {"mp4", "videoPath"}

\* data.status_code === 'FINISHED'
Finished_NotError(status) == status # "ERROR"

Finished(status) == status = "FINISHED"

IgInit ==
    /\ igPc = "idle"
    /\ igPostType = "feed"
    /\ igMedia = <<>>
    /\ containers = <<>>
    /\ attempt = 0
    /\ maxAttempts = 0
    /\ statusRequests = 0
    /\ publishRequests = 0
    /\ waitFailed = FALSE
    /\ igResult = "none"

IsCarousel == igPostType = "feed" /\ Len(igMedia) > 1

\* The carousel's children are created first; then the container itself.
ChildrenDone == Len(containers) >= Len(igMedia)

\* The container the next POST /media asks for: its media_type, whether
\* its body carries a video_url, and the attempts its wait is given
\* (0: the code does not wait for it).
NextContainer ==
    IF igPostType = "reels"
        THEN [type |-> "REELS", video |-> TRUE, wait |-> ReelsAttempts]
    ELSE IF igPostType = "stories"
        THEN [type |-> "STORIES", video |-> LooksLikeVideo(igMedia[1]),
              wait |-> IF LooksLikeVideo(igMedia[1]) THEN StoriesAttempts ELSE 0]
    ELSE IF IsCarousel /\ ~ChildrenDone
        THEN LET url == igMedia[Len(containers) + 1]
             IN  [type |-> IF EndsAsVideo(url) THEN "VIDEO" ELSE "IMAGE",
                  video |-> EndsAsVideo(url),
                  wait |-> IF EndsAsVideo(url) THEN DefaultAttempts ELSE 0]
    ELSE IF IsCarousel
        THEN [type |-> "CAROUSEL", video |-> FALSE, wait |-> 0]
    ELSE IF \E i \in 1..Len(igMedia) : LooksLikeVideo(igMedia[i])
        THEN [type |-> "VIDEO", video |-> TRUE, wait |-> DefaultAttempts]
    ELSE [type |-> "IMAGE", video |-> FALSE, wait |-> 0]

\* The catch block of post, and its early returns.
IgFail ==
    /\ igPc' = "returned"
    /\ igResult' = "failure"

\* What follows a container that is ready: the next child, the carousel
\* container, or the publish request.
AfterContainer(made) ==
    igPc' = IF made.type \in {"IMAGE", "VIDEO"} /\ IsCarousel THEN "creating"
            ELSE "publishing"

\* post(options)
IgPost(configured, media, postType) ==
    /\ igPc = "idle"
    /\ igPostType' = postType
    /\ igMedia' = media
    /\ IF ~configured \/ Len(media) = 0
       THEN IgFail
       ELSE igPc' = "creating" /\ igResult' = "none"
    /\ UNCHANGED <<containers, attempt, maxAttempts, statusRequests,
                   publishRequests, waitFailed>>
    /\ UNCHANGED exceptIg

\* The POST /media request of a create...Container and its answer r.
IgCreateReturn(r) ==
    /\ igPc = "creating"
    /\ IF r # "ok"
       THEN /\ IgFail
            /\ UNCHANGED <<containers, attempt, maxAttempts, statusRequests>>
       ELSE LET made == NextContainer
            IN  /\ containers' = Append(containers,
                                        [type |-> made.type, video |-> made.video,
                                         status |-> "none"])
                /\ attempt' = 0
                /\ maxAttempts' = made.wait
                /\ statusRequests' = 0
                /\ igResult' = "none"
                /\ IF made.wait > 0 THEN igPc' = "polling"
                   ELSE AfterContainer(made)
    /\ UNCHANGED <<igPostType, igMedia, publishRequests, waitFailed>>
    /\ UNCHANGED exceptIg

\* One pass of the loop of waitForMediaProcessing: the status request and
\* its answer ("throw": fetch or json() throws).
IgStatusReturn(status) ==
    /\ igPc = "polling"
    /\ attempt < maxAttempts
    /\ statusRequests' = statusRequests + 1
    /\ IF status = "throw"
       THEN /\ IgFail
            /\ UNCHANGED <<containers, attempt, waitFailed>>
       ELSE /\ containers' = [containers EXCEPT ![Len(containers)].status = status]
            /\ IF Finished(status)
               THEN /\ AfterContainer(containers[Len(containers)])
                    /\ UNCHANGED <<attempt, waitFailed, igResult>>
               ELSE IF status = "ERROR"
               THEN /\ IgFail
                    /\ waitFailed' = TRUE
                    /\ UNCHANGED attempt
               ELSE /\ attempt' = attempt + 1
                    /\ UNCHANGED <<igPc, waitFailed, igResult>>
    /\ UNCHANGED <<igPostType, igMedia, maxAttempts, publishRequests>>
    /\ UNCHANGED exceptIg

\* throw new Error('Media processing timeout')
IgWaitTimeout ==
    /\ igPc = "polling"
    /\ attempt >= maxAttempts
    /\ IgFail
    /\ waitFailed' = TRUE
    /\ UNCHANGED <<igPostType, igMedia, containers, attempt, maxAttempts,
                   statusRequests, publishRequests>>
    /\ UNCHANGED exceptIg

\* The media_publish request and its answer.
IgPublishReturn(r) ==
    /\ igPc = "publishing"
    /\ publishRequests' = publishRequests + 1
    /\ IF r = "ok" THEN igPc' = "permalink" /\ igResult' = "none"
       ELSE IgFail
    /\ UNCHANGED <<igPostType, igMedia, containers, attempt, maxAttempts,
                   statusRequests, waitFailed>>
    /\ UNCHANGED exceptIg

\* The permalink request and its answer.
IgPermalinkReturn(r) ==
    /\ igPc = "permalink"
    /\ igPc' = "returned"
    /\ igResult' = IF r = "throw" THEN "failure" ELSE "success"
    /\ UNCHANGED <<igPostType, igMedia, containers, attempt, maxAttempts,
                   statusRequests, publishRequests, waitFailed>>
    /\ UNCHANGED exceptIg

\* The next post call.
IgAgain ==
    /\ igPc = "returned"
    /\ igPc' = "idle"
    /\ igPostType' = "feed"
    /\ igMedia' = <<>>
    /\ containers' = <<>>
    /\ attempt' = 0
    /\ maxAttempts' = 0
    /\ statusRequests' = 0
    /\ publishRequests' = 0
    /\ waitFailed' = FALSE
    /\ igResult' = "none"
    /\ UNCHANGED exceptIg

IgNext ==
    \/ \E configured \in BOOLEAN, media \in MediaLists, postType \in IgPostTypes :
          IgPost(configured, media, postType)
    \/ \E r \in {"ok", "error", "throw"} : IgCreateReturn(r)
    \/ \E status \in {"FINISHED", "ERROR", "IN_PROGRESS", "throw"} : IgStatusReturn(status)
    \/ IgWaitTimeout
    \/ \E r \in {"ok", "error", "throw"} : IgPublishReturn(r)
    \/ \E r \in {"ok", "throw"} : IgPermalinkReturn(r)
    \/ IgAgain

(***************************************************************************)
(* index.ts : the CLI's post command                                       *)
(***************************************************************************)
\* The order of the four blocks in the action.
CliOrder == <<"twitter", "reddit", "linkedin", "instagram">>

CliPlatforms == {CliOrder[k] : k \in 1..Len(CliOrder)}

Flags == {"twitter", "reddit", "linkedin", "instagram", "all"}

NoSummary == [successful |-> 0, failed |-> 0, printed |-> FALSE]

CliInit ==
    /\ cliPc = "idle"
    /\ cliOptions = {}
    /\ cliConfigured = {}
    /\ cliResults = <<>>
    /\ cliPrinted = <<>>
    /\ cliSummary = NoSummary

\* The condition guarding each platform's block.
Attempts(platform, options, configured) ==
    /\ IF platform \in {"twitter", "linkedin"}
       THEN platform \in options \/ "all" \in options
       ELSE platform \in options
    /\ platform \in configured

\* The block after platform's, or the summary.
Following(platform) ==
    LET k == CHOOSE i \in 1..Len(CliOrder) : CliOrder[i] = platform
    IN  IF k < Len(CliOrder) THEN CliOrder[k + 1] ELSE "summary"

\* results.filter(r => r.success).length
CountSuccessful(rs) == Cardinality({k \in 1..Len(rs) : rs[k].success})

\* results.filter(r => !r.success).length
CountFailed_None(rs) == 0

CountFailed(rs) == Cardinality({k \in 1..Len(rs) : ~rs[k].success})

\* social post <text> with the flags options, configured being the
\* platforms whose client answers isConfigured() with true.
PostCommand(options, configured) ==
    /\ cliPc = "idle"
    /\ cliPc' = CliOrder[1]
    /\ cliOptions' = options
    /\ cliConfigured' = configured
    /\ cliResults' = <<>>
    /\ cliPrinted' = <<>>
    /\ cliSummary' = NoSummary
    /\ UNCHANGED exceptCli

\* One platform's block: when its condition holds, the client's post is
\* awaited (it returns a result, success or failure, and does not throw),
\* the result is pushed and printed.
CliPlatformBlock(success) ==
    /\ cliPc \in CliPlatforms
    /\ IF Attempts(cliPc, cliOptions, cliConfigured)
       THEN /\ cliResults' = Append(cliResults, [platform |-> cliPc, success |-> success])
            /\ cliPrinted' = Append(cliPrinted,
                                    [platform |-> cliPc,
                                     line |-> IF success THEN "Success!" ELSE "Failed"])
       ELSE /\ success
            /\ UNCHANGED <<cliResults, cliPrinted>>
    /\ cliPc' = Following(cliPc)
    /\ UNCHANGED <<cliOptions, cliConfigured, cliSummary>>
    /\ UNCHANGED exceptCli

\* printSummary(results)
PrintSummary ==
    /\ cliPc = "summary"
    /\ cliPc' = "done"
    /\ cliSummary' = [successful |-> CountSuccessful(cliResults),
                      failed |-> CountFailed(cliResults),
                      printed |-> TRUE]
    /\ UNCHANGED <<cliOptions, cliConfigured, cliResults, cliPrinted>>
    /\ UNCHANGED exceptCli

\* The next run of the command.
CliAgain ==
    /\ cliPc = "done"
    /\ cliPc' = "idle"
    /\ cliOptions' = {}
    /\ cliConfigured' = {}
    /\ cliResults' = <<>>
    /\ cliPrinted' = <<>>
    /\ cliSummary' = NoSummary
    /\ UNCHANGED exceptCli

CliNext ==
    \/ \E options \in SUBSET Flags, configured \in SUBSET CliPlatforms :
          PostCommand(options, configured)
    \/ \E success \in BOOLEAN : CliPlatformBlock(success)
    \/ PrintSummary
    \/ CliAgain

(***************************************************************************)
(* services/content-manager.ts : ContentManager                            *)
(***************************************************************************)
ContentIds == 1..MaxContent

\* ContentItem['status']
Statuses == {"draft", "scheduled", "published", "failed"}

\* The statuses getContentById and getAllContent look through, in order.
Searched == <<"draft", "scheduled", "published">>

\* getContentPath: status === 'draft' ? 'drafts' : status
Folder(status) == IF status = "draft" THEN "drafts" ELSE status

\* The folders the manager reads content from; it creates none itself.
ContentInit ==
    /\ folders = {Folder(Searched[k]) : k \in 1..Len(Searched)}
    /\ files = [f \in {} |-> "draft"]
    /\ created = {}
    /\ contentReturn = "item"

Exists(fs, path) == path \in DOMAIN fs

\* fs.unlinkSync(path)
Unlink(fs, path) == [q \in DOMAIN fs \ {path} |-> fs[q]]

\* fs.writeFileSync(path, JSON.stringify(item)), the folder existing
WriteFile(fs, path, status) ==
    [q \in DOMAIN fs \cup {path} |-> IF q = path THEN status ELSE fs[q]]

\* getContentById: the first searched folder holding <id>.json; 0 for null
FoundAt(fs, id) ==
    LET hits == {k \in 1..Len(Searched) : Exists(fs, <<Folder(Searched[k]), id>>)}
    IN  IF hits = {} THEN 0 ELSE Smallest(hits)

\* createContent: id is the fresh id it generates.
CreateContent(id) ==
    /\ id \in ContentIds \ created
    /\ IF "drafts" \in folders
       THEN /\ files' = WriteFile(files, <<"drafts", id>>, "draft")
            /\ created' = created \cup {id}
            /\ contentReturn' = "item"
       ELSE /\ contentReturn' = "throw"
            /\ UNCHANGED <<files, created>>
    /\ UNCHANGED folders
    /\ UNCHANGED exceptContent

NoStatus == "undefined"

\* updateContent(id, updates), updates.status being status (NoStatus when
\* the updates carry none).
Update(id, status) ==
    LET k == FoundAt(files, id)
    IN  IF k = 0
        THEN /\ contentReturn' = "null"
             /\ UNCHANGED files
        ELSE LET itemStatus == files[<<Folder(Searched[k]), id>>]
                 oldPath == <<Folder(itemStatus), id>>
                 newPath == <<Folder(status), id>>
             IN  IF status # NoStatus /\ status # itemStatus
                 THEN LET removed == IF Exists(files, oldPath)
                                     THEN Unlink(files, oldPath) ELSE files
                      IN  IF Folder(status) \in folders
                          THEN /\ files' = WriteFile(removed, newPath, status)
                               /\ contentReturn' = "item"
                          ELSE /\ files' = removed
                               /\ contentReturn' = "throw"
                 ELSE /\ files' = WriteFile(files, oldPath, itemStatus)
                      /\ contentReturn' = "item"

UpdateContent(id, status) ==
    /\ Update(id, status)
    /\ UNCHANGED <<folders, created>>
    /\ UNCHANGED exceptContent

ScheduleContent(id) ==
    /\ Update(id, "scheduled")
    /\ UNCHANGED <<folders, created>>
    /\ UNCHANGED exceptContent

MarkPublished(id) ==
    /\ Update(id, "published")
    /\ UNCHANGED <<folders, created>>
    /\ UNCHANGED exceptContent

\* Somebody creates a folder for the fourth status.
MakeFolder ==
    /\ "failed" \notin folders
    /\ folders' = folders \cup {"failed"}
    /\ UNCHANGED <<files, created, contentReturn>>
    /\ UNCHANGED exceptContent

ContentNext ==
    \/ \E id \in ContentIds : CreateContent(id)
    \/ \E id \in ContentIds, status \in Statuses \cup {NoStatus} : UpdateContent(id, status)
    \/ \E id \in ContentIds : ScheduleContent(id)
    \/ \E id \in ContentIds : MarkPublished(id)
    \/ MakeFolder

LibInit ==
    PromptInit /\ MailInit /\ CmdInit /\ ThreadInit /\ IgInit /\ CliInit /\ ContentInit

(***************************************************************************)
(* The CLI (social post / social thread) and mcp-server.ts                 *)
(***************************************************************************)
EntryInit == directPosts = {}

\* The MCP tools that publish to Twitter.
McpTwitterTools == {"post_twitter", "post_twitter_thread", "post_all"}

\* social post <text> --twitter, with Twitter configured:
\* clients.twitter.post({ text, ... }) at once.
CliPost ==
    /\ directPosts' = directPosts \cup {"social post"}
    /\ UNCHANGED gateVars
    /\ UNCHANGED botVars
    /\ UNCHANGED libVars

\* social thread <tweets...>, with Twitter configured:
\* clients.twitter.postThread(tweets) at once.
CliThread ==
    /\ directPosts' = directPosts \cup {"social thread"}
    /\ UNCHANGED gateVars
    /\ UNCHANGED botVars
    /\ UNCHANGED libVars

\* The CallToolRequestSchema handler for a Twitter tool, with Twitter
\* configured: clients.twitter.post / postThread at once.
McpCallTool(name) ==
    /\ directPosts' = directPosts \cup {name}
    /\ UNCHANGED gateVars
    /\ UNCHANGED botVars
    /\ UNCHANGED libVars

\* Every entry point that can publish a tweet: the bot's commands and
\* buttons, the CLI and the MCP tools.  (The gate's executors are GateSpec.)
EntryNext ==
    \/ \E t \in {"tweet", "email"}, id \in Ids : QueueCommand("operator", t, id)
    \/ \E id \in Ids : ConfirmTap("operator", id)
    \/ \E id \in Ids, r \in {"ok", "throw"} : HandlerEdited(id, r)
    \/ \E id \in Ids, r \in {"ok", "fail"} : HandlerCalled(id, r)
    \/ \E id \in Ids : CancelTap("operator", id)
    \/ CliPost
    \/ CliThread
    \/ \E name \in McpTwitterTools : McpCallTool(name)

Init == GateInit /\ BotInit /\ EntryInit /\ LibInit

GateSpec == Init /\ [][GateNext]_vars

\* The executor run again and again, each run compared with the earlier ones.
RunsNext == GateNext \/ Restart

RunsSpec == Init /\ [][RunsNext]_vars

TweetSpec == Init /\ [][TweetNext]_vars

BotSpec == Init /\ [][BotNext]_vars

SweepSpec == Init /\ [][SweepNext]_vars

SharedTokenSpec == Init /\ [][SharedTokenNext]_vars

AnySenderInit == GateInit /\ AnyEnvInit /\ EntryInit /\ LibInit

AnySenderSpec == AnySenderInit /\ [][AnySenderNext]_vars

EntrySpec == Init /\ [][EntryNext]_vars

PromptSpec == Init /\ [][PromptNext]_vars

MailSpec == Init /\ [][MailNext]_vars

CommandSpec == Init /\ [][CommandNext]_vars

ThreadSpec == Init /\ [][ThreadNext]_vars

IgSpec == Init /\ [][IgNext]_vars

CliSpec == Init /\ [][CliNext]_vars

ContentSpec == Init /\ [][ContentNext]_vars

(***************************************************************************)
(* Claims about security-gate.ts                                           *)
(***************************************************************************)
\* Some update of the queue is the confirm button of this run's action.
ConfirmReceived == \E i \in 1..Len(updates) : updates[i] = Confirm(actionId)

\* No update of the queue carries this run's action id.
NoResponse == \A i \in 1..Len(updates) : updates[i].id # actionId

\* Every tap on this run's prompt was of kind k.
OnlyTaps(k) ==
    \A i \in 1..Len(updates) : updates[i].id = actionId => updates[i].kind = k

\* C1: when the confirmation wait ended by the operator's cancel or by the
\* timeout, the executor has made no platform call (sendMail / tweet /
\* Instagram publish), at any later point of that invocation.
C1_NoCallAfterCancelOrTimeout ==
    endedBy \in {"cancel", "timeout"} => platformCalls = 0

C1_Witness ==
    /\ endedBy \in {"cancel", "timeout"}
    /\ gpc = "done"
    /\ result = CancelledResult

\* C2 as stated: every platform call of a gated executor is preceded by a
\* confirm response carrying the action's id.
C2_CallOnlyAfterConfirm == platformCalls > 0 => ConfirmReceived

\* C2 amended: with the Telegram transport configured, every platform call is
\* preceded by a confirm response carrying the action's id.
C2_ConfiguredCallOnlyAfterConfirm ==
    (platformCalls > 0 /\ botToken /\ userId) => ConfirmReceived

C2_Witness == platformCalls > 0 /\ botToken /\ userId /\ ConfirmReceived

\* C3: with the bot token or the operator id missing, requestConfirmation
\* returns true at once: no prompt is sent, nothing is registered, no poll
\* timer runs, and the executor goes on to its platform call.
C3_FailOpen ==
    (gpc # "idle" /\ (~botToken \/ ~userId)) =>
        /\ prompts = 0
        /\ pendingConfirmations = {}
        /\ ~Registered
        /\ ~intervalActive
        /\ InFlight = 0
        /\ gpc \in {"confirmed", "calling", "notifying", "done"}
        /\ result # CancelledResult

C3_Witness == gpc = "calling" /\ botToken /\ ~userId /\ platformCalls = 1

\* C4: a registered wait never stays pending forever: while the promise is
\* pending, the poll timer or a poll tick in flight is still there to end it.
C4_WaitCanStillEnd ==
    (Registered /\ outcome = "pending") => (intervalActive \/ InFlight > 0)

\* C5: with no operator response, the wait is over at the first poll tick
\* after the TTL, so it never outlasts timeoutMs by more than one poll
\* interval; it then resolved to false by the timeout and the action is out
\* of the registry for good.
C5_TimeoutWithinOneInterval ==
    (Registered /\ NoResponse) =>
        /\ outcome = "pending" =>
              /\ gateNow - startTime <= timeoutMs + PollInterval
              /\ gateNow - startTime = timeoutMs + PollInterval
                    => (intervalActive /\ gateNow >= nextTick)
        /\ outcome # "pending" =>
              /\ outcome = "false"
              /\ endedBy = "timeout"
              /\ gateNow - startTime > timeoutMs
              /\ actionId \notin pendingConfirmations
              /\ gpc = "done" /\ result = CancelledResult

C5_Witness ==
    /\ Registered
    /\ NoResponse
    /\ endedBy = "timeout"
    /\ gpc = "done"
    /\ gateNow - startTime = timeoutMs + PollInterval

\* C9: when the operator's only taps are confirm (cancel), the first of them
\* made while the action is pending and a poll is still due before the TTL,
\* and Telegram answers every polling request in time, a wait that ended
\* ended as confirmed (as cancelled, not by the timeout), whatever other
\* updates arrived.
C9_TapDecidesOutcome ==
    (outcome # "pending" /\ ~apiTrouble) =>
        /\ (firstTap = "confirm" /\ OnlyTaps("confirm")) => outcome = "true"
        /\ (firstTap = "cancel" /\ OnlyTaps("cancel")) => endedBy = "cancel"

\* C10: two runs that stopped for different reasons among operator cancel,
\* timeout, prompt not sendable and platform error returned different results.
C10_CausesDistinguishable ==
    (gpc = "done" /\ cause \in FailureCauses) =>
        \A o \in observed : o[1] # cause => o[2] # result

\* C24: when the prompt's sendMessage is answered with a non-OK status,
\* nothing is registered, no poll timer runs or ever ran, no update is
\* polled, and the executor returns the cancelled result without a platform
\* call.
C24_UndeliveredPromptEndsRun ==
    promptStatus = "notok" =>
        /\ ~Registered
        /\ pendingConfirmations = {}
        /\ ~intervalActive
        /\ InFlight = 0
        /\ outcome = "pending"
        /\ platformCalls = 0
        /\ completions = 0
        /\ gpc = "done"
        /\ result = CancelledResult

C24_Witness == promptStatus = "notok" /\ gpc = "done" /\ prompts = 1

\* C11: whatever the prompt send, the polling and the platform call do, the
\* executor's promise never rejects: every failure comes back as a result.
C11_NeverRejects == gpc # "rejected"

\* C12 as stated: an executor that returned after a confirm made exactly one
\* platform call.
C12_ExactlyOneCall ==
    (endedBy = "confirm" /\ gpc = "done") => platformCalls = 1

\* C12 amended: after a confirm an executor never makes a second platform
\* call; it has made exactly one when it returns, except the Instagram
\* executor with an unconfigured client, which makes none and returns
\* 'Instagram not configured'; a failed call is returned with the platform's
\* error message.
C12_OneCallUnlessNotConfigured ==
    endedBy = "confirm" =>
        /\ platformCalls <= 1
        /\ gpc = "done" =>
              IF kind = "instagram" /\ ~igConfigured
              THEN /\ platformCalls = 0
                   /\ result = ErrorResult("Instagram not configured")
              ELSE /\ platformCalls = 1
                   /\ (postId = NoPost /\ cause # "notify") =>
                         result = ErrorResult("platform error message")

C12_Witness ==
    /\ endedBy = "confirm"
    /\ gpc = "done"
    /\ platformCalls = 1
    /\ result = ErrorResult("platform error message")

\* C13: when the operator confirmed and the platform accepted the tweet,
\* postTweetWithConfirmation has called the platform once, with the text it
\* was given, and returns success with the URL built from the returned id.
C13_AcceptedTweetReturnsUrl ==
    (kind = "tweet" /\ endedBy = "confirm" /\ gpc = "done" /\ postId # NoPost) =>
        /\ platformCalls = 1
        /\ sentText = text
        /\ result = SuccessResult
        /\ resultUrl = Url(postId)

\* C14 as stated: an executor that returned after a successful platform call
\* has had one completion message sent to the operator.
C14_CompletionDelivered ==
    (gpc = "done" /\ postId # NoPost) => delivered = 1

\* C14 amended: a completion sendMessage request, distinct from the prompt,
\* is issued exactly when the platform call succeeded, once, before the
\* executor returns; none is issued for a cancelled, timed-out or failed
\* action.  Whether Telegram accepts it is not looked at.
C14_CompletionRequestIffSuccess ==
    /\ completions = (IF postId # NoPost THEN 1 ELSE 0)
    /\ delivered <= completions
    /\ (gpc = "done" /\ result = SuccessResult) => completions = 1
    /\ (endedBy \in {"cancel", "timeout"}) => completions = 0
    /\ (gpc = "done" /\ postId = NoPost) => completions = 0

C14_Witness ==
    /\ gpc = "done"
    /\ endedBy = "confirm"
    /\ completions = 1
    /\ prompts = 1
    /\ delivered = 1

C16_FirstRemoverWins == outcome # "pending" => endedBy = removedBy

(***************************************************************************)
(* Claims about telegram-bot.ts                                            *)
(***************************************************************************)
\* C6: of all confirm taps, cancel taps and sweeps on a queued action's id,
\* exactly one finds the action and removes it; the platform call runs at most
\* once, and only when that one was a confirm tap; at most one 'published'
\* message is produced.
C6_SingleResolution ==
    \A id \in issued :
        /\ Len(removals[id]) <= 1
        /\ id \notin DOMAIN pendingActions <=> Len(removals[id]) = 1
        /\ botCalls[id] <= 1
        /\ published[id] <= botCalls[id]
        /\ botCalls[id] > 0 => removals[id] = <<"confirm">>
        /\ handler[id] # "none" => removals[id] = <<"confirm">>

C6_Witness ==
    \E id \in issued :
        /\ removals[id] = <<"confirm">>
        /\ id \in stale
        /\ botCalls[id] = 1
        /\ published[id] = 1
        /\ \E other \in issued : removals[other] = <<"sweep">> /\ other \in stale

\* C7: no queued action is executed on a confirm tap that arrived after the
\* action's expiresAt.
C7_NoExecutionAfterExpiry == \A id \in Ids : botCalls[id] > 0 => id \notin lateExec

\* A confirm or cancel tap on an id that is no longer in the Map.
StaleTap ==
    \E from \in Senders, id \in Ids :
        id \notin DOMAIN pendingActions /\ (ConfirmTap(from, id) \/ CancelTap(from, id))

C21_SweepRemovesExactlyExpired ==
    [][Sweep =>
         /\ DOMAIN pendingActions' =
                {i \in DOMAIN pendingActions : pendingActions[i].expiresAt >= botNow}
         /\ \A i \in DOMAIN pendingActions' : pendingActions'[i] = pendingActions[i]]_vars

C21_Witness ==
    \E i \in Ids, j \in Ids :
        /\ removals[i] = <<"sweep">>
        /\ j \in DOMAIN pendingActions
        /\ botNow = nextSweep - SweepInterval

\* C25: with the bot and a gate wait active on one token, the bot never
\* handles (and answers as expired) a tap on the gate's prompt while the
\* action is still pending in the gate.
C25_BotLeavesGateTapsAlone ==
    \A id \in stale : id \notin pendingConfirmations

\* C17: a confirm or cancel tap whose id matches no pending action is
\* answered as expired/unknown, for confirm and cancel alike.
C17_StaleAnsweredExpired == staleAnswers \subseteq {ExpiredAnswer}

\* C19: no handler (command, confirm, cancel) ever runs for an update whose
\* sender is not the operator.
C19_OnlyOperatorActs == strangerRan = {}

(***************************************************************************)
(* Claims about the program's entry points                                 *)
(***************************************************************************)
\* C20: on every entry point a tweet is published or an email sent only
\* after the operator confirmed that action: the bot calls the platform for
\* an action only after its confirm tap, and no entry point calls the
\* Twitter client on its own.
C20_AllPublishingConfirmed ==
    /\ \A id \in Ids : botCalls[id] > 0 => removals[id] = <<"confirm">>
    /\ directPosts = {}

(***************************************************************************)
(* Claims about the prompt text                                            *)
(***************************************************************************)
\* The first n characters of s, written without the program's substring.
FirstChars(s, n) == [i \in 1..(IF Len(s) < n THEN Len(s) ELSE n) |-> s[i]]

\* C22: an Instagram prompt carries the post type and the first 150
\* characters of the caption at most; an email prompt carries recipient,
\* subject and the first 200 characters of the tag-stripped body at most; a
\* longer caption or body is never shown whole.
C22_PromptPreviewTruncated ==
    /\ promptOut.type = "instagram" =>
          /\ promptOut.postType = promptIn.data.postType
          /\ promptOut.postType \in PostTypes
          /\ promptOut.caption = FirstChars(promptIn.data.caption, CaptionPreviewLen)
          /\ Len(promptIn.data.caption) > CaptionPreviewLen =>
                promptOut.caption # promptIn.data.caption
    /\ promptOut.type = "email" =>
          /\ promptOut.to = promptIn.data.to
          /\ promptOut.subject = promptIn.data.subject
          /\ promptOut.preview =
                FirstChars(StripTags(promptIn.data.html), EmailPreviewLen)
          /\ Len(StripTags(promptIn.data.html)) > EmailPreviewLen =>
                promptOut.preview # StripTags(promptIn.data.html)

C22_Witness ==
    /\ promptOut.type = "email"
    /\ Len(StripTags(promptIn.data.html)) > EmailPreviewLen
    /\ Len(promptIn.data.html) > Len(StripTags(promptIn.data.html))
    /\ Len(promptOut.preview) = EmailPreviewLen

(***************************************************************************)
(* Claims about safeSendEmail                                              *)
(***************************************************************************)
\* C23: of all safeSendEmail calls to one recipient on one day, in any
\* order or interleaving, at most one reaches transporter.sendMail; every
\* other call ends blocked.
C23_AtMostOneSend ==
    /\ sendMailCalls <= 1
    /\ Cardinality({c \in Calls : mailPc[c] \in {"sending", "sent", "failed"}}) <= 1

(***************************************************************************)
(* Claims about the bot's commands                                         *)
(***************************************************************************)
\* What follows the command word (and a bot-name suffix, if any).
AfterCommand(msg) ==
    IF Len(msg) >= 2 /\ msg[2] = "@bot" THEN SubSeq(msg, 3, Len(msg))
    ELSE SubSeq(msg, 2, Len(msg))

\* The command carries no text: only spaces follow the command word.
EmptyText(msg) == \A i \in 1..Len(AfterCommand(msg)) : AfterCommand(msg)[i] = " "

\* The number of "|" in the message, and what stands before the first one.
Pipes(msg) == Cardinality({i \in 1..Len(msg) : msg[i] = "|"})

Recipient(msg) ==
    LET a == AfterCommand(msg)
        bars == {i \in 1..Len(a) : a[i] = "|"}
    IN  IF bars = {} THEN a ELSE SubSeq(a, 1, Smallest(bars) - 1)

\* C26: no pending action was queued from a /tweet with empty text or an
\* /email with fewer than three parts or a recipient without "@", and a
\* message with buttons was sent only for a queued action.
C26_RejectedCommandQueuesNothing ==
    /\ DOMAIN queuedFrom = issued
    /\ buttonPrompts = Cardinality(issued)
    /\ \A id \in DOMAIN queuedFrom :
          LET msg == queuedFrom[id]
          IN  /\ ~EmptyText(msg)
              /\ msg[1] = "/email" =>
                    (Pipes(msg) >= 2 /\ Includes(Recipient(msg), "@"))

(***************************************************************************)
(* Claims about TwitterClient.postThread                                   *)
(***************************************************************************)
\* C27: postThread posts the tweets in order, the first without a reply
\* target and each later one in reply to the id posted just before it; there
\* is one result per attempted tweet, every result but possibly the last is
\* a success, nothing is attempted after a failure, and the thread returns
\* only when the list is exhausted or its last attempt failed.
C27_ThreadInOrderStopsAtFailure ==
    /\ Len(results) = Len(postCalls)
    /\ Len(postCalls) <= Len(tweets)
    /\ \A k \in 1..Len(postCalls) :
          /\ postCalls[k].text = tweets[k]
          /\ postCalls[k].replyToId = (IF k = 1 THEN NoPost ELSE results[k - 1].postId)
    /\ \A k \in 1..(Len(results) - 1) : results[k].success
    /\ Len(tweetRequests) <= Len(postCalls)
    /\ \A k \in 1..Len(tweetRequests) :
          /\ tweetRequests[k].text = tweets[k]
          /\ tweetRequests[k].reply = postCalls[k].replyToId
    /\ threadPc = "returned" =>
          \/ Len(results) = Len(tweets)
          \/ ~results[Len(results)].success

\* A thread of three stopped at its second tweet.
C27_Witness ==
    /\ threadPc = "returned"
    /\ Len(tweets) = 3
    /\ Len(results) = 2
    /\ results[1].success
    /\ ~results[2].success
    /\ Len(tweetRequests) = 2
    /\ tweetRequests[2].reply = results[1].postId

(***************************************************************************)
(* Claims about InstagramClient.post                                       *)
(***************************************************************************)
\* C28: media_publish is requested only after a container was created and
\* every created container carrying a video (video, reels, video story) saw
\* a FINISHED status; a wait makes at most maxAttempts status requests; and
\* once a wait met ERROR or ran out of attempts, no media_publish request is
\* made and post returns a failure.
C28_PublishOnlyAfterFinished ==
    /\ publishRequests > 0 =>
          /\ containers # <<>>
          /\ \A k \in 1..Len(containers) : containers[k].video => containers[k].status = "FINISHED"
    /\ statusRequests <= maxAttempts
    /\ maxAttempts \in {0, DefaultAttempts, ReelsAttempts, StoriesAttempts}
    /\ waitFailed => (publishRequests = 0 /\ igPc = "returned" /\ igResult = "failure")

\* A reel published after its sixtieth status request returned FINISHED.
C28_Witness ==
    /\ igPostType = "reels"
    /\ statusRequests = ReelsAttempts
    /\ containers[1].status = "FINISHED"
    /\ publishRequests = 1
    /\ igResult = "success"

(***************************************************************************)
(* Claims about the CLI's post command                                     *)
(***************************************************************************)
\* The platform is selected: by its own flag, or by --all for the two
\* platforms that need no argument.
Selected(platform) ==
    \/ platform \in cliOptions
    \/ platform \in {"twitter", "linkedin"} /\ "all" \in cliOptions

\* The platforms already passed at the command's current position.
Passed ==
    IF cliPc \in {"summary", "done"} THEN CliPlatforms
    ELSE IF cliPc = "idle" THEN {}
    ELSE {CliOrder[k] : k \in 1..((CHOOSE i \in 1..4 : CliOrder[i] = cliPc) - 1)}

Position(platform) == CHOOSE i \in 1..4 : CliOrder[i] = platform

C30_OneFileInMatchingFolder ==
    \A id \in created :
        /\ Cardinality({path \in DOMAIN files : path[2] = id}) = 1
        /\ \A path \in DOMAIN files :
              path[2] = id =>
                /\ path[1] \in {"drafts", "scheduled", "published"}
                /\ path[1] = (IF files[path] = "draft" THEN "drafts" ELSE files[path])

=========================================================================
